---- MODULE Spec2Model ----
(***************************************************************************)
(* Model of nautilus_trader's LiveExecutionEngine                          *)
(* (src/nautilus_trader/live/execution_engine.pyx): the bounded message    *)
(* queue fed by execute()/process(), the consumer task _run(), the         *)
(* start/stop/kill lifecycle and the reconcile_state() polling protocol.   *)
(*                                                                         *)
(* Everything runs on one asyncio event loop (docstrings at lines 220-223  *)
(* and 247-250), so a step of the model is one uninterrupted stretch of    *)
(* synchronous code: a whole cpdef call, or the part of a coroutine        *)
(* between two awaits.                                                     *)
(***************************************************************************)
EXTENDS Integers, Sequences, FiniteSets, TLC

\* ---------------------------------------------------------------- bounds
maxsize == 2          \* capacity of the engine queue (config key "qsize")
MaxMsgs == 3          \* execute()/process() calls with a message per behaviour of Spec
MaxTasks == 2         \* start() calls (consumer tasks created) per behaviour

Venues == {"V1", "V2"}
TaskIds == 1..MaxTasks

\* ------------------------------------------------------------- messages
\* One record shape for everything that can sit on the queue; id is the
\* position of the call among the execute()/process() calls with a message,
\* eid the event id (an event handed to process() again keeps its eid).
\* An order event names its order (oid) and carries the cumulative filled
\* quantity and the fill price (fill events) or the new quantity (OrderModified).
Quantity == 2         \* quantity of the orders loaded from the database
BasePx == 1000        \* the price 100.0, in units of the price precision (0.1)

None == [type |-> "NONE", id |-> 0, eid |-> 0, venue |-> "-",
         kind |-> "-", oid |-> 0, cum_qty |-> 0, px |-> 0, quantity |-> 0]

Command(i, v) == [type |-> "COMMAND", id |-> i, eid |-> 0, venue |-> v,
                  kind |-> "-", oid |-> 0, cum_qty |-> 0, px |-> 0, quantity |-> 0]

\* A message whose type is neither COMMAND nor EVENT; it names a venue and an
\* order as a command and an event would.
Document(i) == [type |-> "DOCUMENT", id |-> i, eid |-> i, venue |-> "V1",
                kind |-> "OrderAccepted", oid |-> 1, cum_qty |-> 0, px |-> 0,
                quantity |-> 0]

OrderEvent(i, k, o, c, p, q) ==
    [type |-> "EVENT", id |-> i, eid |-> i, venue |-> "-",
     kind |-> k, oid |-> o, cum_qty |-> c, px |-> p, quantity |-> q]

Event(i, k, o, c) == OrderEvent(i, k, o, c, BasePx, Quantity)

VARIABLES
    queue,            \* self._queue: the buffered items, head first
    is_running,       \* self.is_running
    run_queue_task,   \* self._run_queue_task: 0 (None) or the id of the latest task
    state,            \* the component's lifecycle state
    tasks,            \* position of every _run() coroutine created so far
    cancel_req,       \* tasks on which Task.cancel() was called and not yet delivered
    raised,           \* how the latest public call ended: the exception it raised,
                      \*   "warning" (full-queue warning logged) or "none"
    submitted,        \* number of messages execute()/process() have accepted so far
    handled,          \* ids of the messages the consumer dispatched, in dispatch order
    routed,           \* <<venue, id>> of the commands passed to an execution client
    clients,          \* self._clients: the venues with a registered execution client
    orders,           \* the cached orders (execution database), by order id
    recon,            \* position and locals of the reconcile_state() coroutine
    position,         \* the portfolio's position: net quantity of the fills it was given
    processed_ids,    \* the event ids the portfolio has processed
    codec,            \* a tick on its way through to_serializable_str / from_serializable_str
    data_client,      \* the BacktestMarketDataClient and what it passed to the data engine
    tick_pair,        \* two ticks and what ==, != and hash() gave for them
    recon_result,     \* what the latest reconcile_state() call returned
    now               \* self._clock.utc_now(), in seconds

engine_vars == <<queue, is_running, run_queue_task, state, tasks, cancel_req,
                 raised, submitted, handled, routed>>

vars == <<engine_vars, clients, orders, position, processed_ids, recon,
          recon_result, now, codec, data_client, tick_pair>>

\* ----------------------------------------------------------------- queue
\* Queue.put_nowait raises QueueFull exactly when the queue holds maxsize items.
Full(q) == Len(q) >= maxsize

\* A check that lets every argument through.
Condition_not_none_Absent(arg) == TRUE

\* Condition.not_none(argument, name): TRUE when the check passes.
Condition_not_none(arg) == arg # None

\* try: put_nowait(msg) / except QueueFull: log a warning, then `self._queue.put(msg)`.
\* Queue.put is a coroutine function (the queue is awaited at line 282 and raises
\* asyncio.QueueFull at line 231); execute()/process() are plain cpdef functions
\* that call it without awaiting and without scheduling the coroutine object, so
\* its body never runs and the item is never added.
PutOrWarn(q, msg) == IF Full(q) THEN q ELSE Append(q, msg)

PutResult(q) == IF Full(q) THEN "warning" ELSE "none"

\* qsize(): the number of items buffered, the sentinel included.
qsize == Len(queue)

\* ------------------------------------------------------ execute / process
Enqueue(msg) ==
    /\ IF ~Condition_not_none(msg)
         THEN /\ raised' = "ValueError"
              /\ UNCHANGED <<queue, submitted>>
         ELSE /\ queue' = PutOrWarn(queue, msg)
              /\ raised' = PutResult(queue)
              /\ submitted' = submitted + 1
    /\ UNCHANGED <<is_running, run_queue_task, state, tasks, cancel_req,
                   handled, routed>>
    /\ UNCHANGED <<clients, orders, position, processed_ids, recon, recon_result,
                   now, codec, data_client, tick_pair>>

execute(command) == Enqueue(command)

process(event) == Enqueue(event)

\* ------------------------------------------------------------- lifecycle
NewTask == Cardinality({t \in TaskIds : tasks[t] # "none"}) + 1

\* The component lifecycle: start() is accepted in INITIALIZED and in STOPPED,
\* stop() in RUNNING.
CanStart(st) == st \in {"INITIALIZED", "STOPPED"}

CanStop(st) == st = "RUNNING"

\* start(): the lifecycle transition, then _on_start().
start ==
    /\ CanStart(state)
    /\ NewTask \in TaskIds
    /\ state' = "RUNNING"
    /\ is_running' = TRUE
    /\ run_queue_task' = NewTask
    /\ tasks' = [tasks EXCEPT ![NewTask] = "pending"]
    /\ raised' = "none"
    /\ UNCHANGED <<queue, cancel_req, submitted, handled, routed>>
    /\ UNCHANGED <<clients, orders, position, processed_ids, recon, recon_result,
                   now, codec, data_client, tick_pair>>

\* A stop path whose sentinel is added whatever the occupancy.
on_stop_queue_Unchecked(q, running) == IF running THEN Append(q, None) ELSE q

\* _on_stop(): the flag is cleared before put_nowait(None), which raises
\* QueueFull on a full queue.
on_stop_queue(q, running) ==
    IF running /\ ~Full(q) THEN Append(q, None) ELSE q

on_stop_result(q, running) ==
    IF running /\ Full(q) THEN "QueueFull" ELSE "none"

\* stop(): the lifecycle transition, then _on_stop().
stop ==
    /\ CanStop(state)
    /\ state' = "STOPPED"
    /\ is_running' = FALSE
    /\ queue' = on_stop_queue(queue, is_running)
    /\ raised' = on_stop_result(queue, is_running)
    /\ UNCHANGED <<run_queue_task, tasks, cancel_req, submitted, handled,
                   routed>>
    /\ UNCHANGED <<clients, orders, position, processed_ids, recon, recon_result,
                   now, codec, data_client, tick_pair>>

\* Task.cancel() has an effect only on a task that has not finished.
Cancellable(t) == t # 0 /\ tasks[t] \in {"pending", "waiting"}

\* A kill() that calls stop() with the flag still set.
kill_Stopping ==
    /\ cancel_req' = IF Cancellable(run_queue_task)
                       THEN cancel_req \cup {run_queue_task} ELSE cancel_req
    /\ is_running' = FALSE
    /\ state' = IF is_running THEN "STOPPED" ELSE state
    /\ queue' = on_stop_queue(queue, is_running)
    /\ raised' = on_stop_result(queue, is_running)
    /\ UNCHANGED <<run_queue_task, tasks, submitted, handled, routed>>
    /\ UNCHANGED <<clients, orders, position, processed_ids, recon, recon_result,
                   now, codec, data_client, tick_pair>>

\* kill(): cancel the latest task; when running, clear the flag first so that
\* the nested stop() finds is_running False and posts no sentinel.
kill ==
    /\ cancel_req' = IF Cancellable(run_queue_task)
                       THEN cancel_req \cup {run_queue_task} ELSE cancel_req
    /\ is_running' = FALSE
    /\ state' = IF is_running THEN "STOPPED" ELSE state
    /\ queue' = on_stop_queue(queue, FALSE)
    /\ raised' = on_stop_result(queue, FALSE)
    /\ UNCHANGED <<run_queue_task, tasks, submitted, handled, routed>>
    /\ UNCHANGED <<clients, orders, position, processed_ids, recon, recon_result,
                   now, codec, data_client, tick_pair>>

\* ---------------------------------------------------------------- orders
OrderIds == 1..2

TerminalStates == {"REJECTED", "FILLED", "CANCELLED", "EXPIRED", "INVALID"}

\* A completion test that leaves out REJECTED.
is_completed_Missing(o) == o.state \in TerminalStates \ {"REJECTED"}

\* Order.is_completed_c()
is_completed(o) == o.state \in TerminalStates

FillKinds == {"OrderPartiallyFilled", "OrderFilled"}

\* A table with one more row: PARTIALLY_FILLED, OrderCancelled, CANCELLED.
Transition_CancelPartial(s, k) ==
    CASE k = "OrderSubmitted" /\ s = "INITIALIZED" -> "SUBMITTED"
      [] k = "OrderRejected" /\ s = "SUBMITTED" -> "REJECTED"
      [] k = "OrderAccepted" /\ s = "SUBMITTED" -> "ACCEPTED"
      [] k = "OrderWorking" /\ s = "ACCEPTED" -> "WORKING"
      [] k = "OrderModified" /\ s = "WORKING" -> "WORKING"
      [] k = "OrderCancelled" /\ s \in {"WORKING", "ACCEPTED", "PARTIALLY_FILLED"}
            -> "CANCELLED"
      [] k = "OrderExpired" /\ s = "WORKING" -> "EXPIRED"
      [] k = "OrderPartiallyFilled" /\ s \in {"WORKING", "PARTIALLY_FILLED"}
            -> "PARTIALLY_FILLED"
      [] k = "OrderFilled" /\ s \in {"WORKING", "PARTIALLY_FILLED"} -> "FILLED"
      [] k = "OrderTriggered" /\ s = "WORKING" -> "TRIGGERED"
      [] OTHER -> s

\* The order transition table: the state an event of kind k leads to from
\* state s, or s itself when the table has no row for (s, k).
Transition(s, k) ==
    CASE k = "OrderSubmitted" /\ s = "INITIALIZED" -> "SUBMITTED"
      [] k = "OrderRejected" /\ s = "SUBMITTED" -> "REJECTED"
      [] k = "OrderAccepted" /\ s = "SUBMITTED" -> "ACCEPTED"
      [] k = "OrderWorking" /\ s = "ACCEPTED" -> "WORKING"
      [] k = "OrderModified" /\ s = "WORKING" -> "WORKING"
      [] k = "OrderCancelled" /\ s \in {"WORKING", "ACCEPTED"} -> "CANCELLED"
      [] k = "OrderExpired" /\ s = "WORKING" -> "EXPIRED"
      [] k = "OrderPartiallyFilled" /\ s \in {"WORKING", "PARTIALLY_FILLED"}
            -> "PARTIALLY_FILLED"
      [] k = "OrderFilled" /\ s \in {"WORKING", "PARTIALLY_FILLED"} -> "FILLED"
      [] k = "OrderTriggered" /\ s = "WORKING" -> "TRIGGERED"
      [] OTHER -> s

HasRow(s, k) ==
    \/ Transition(s, k) # s
    \/ k \in {"OrderModified"} /\ s = "WORKING"
    \/ k = "OrderPartiallyFilled" /\ s = "PARTIALLY_FILLED"

\* The quantity of the fill an event reports: what it adds to the cumulative
\* quantity of the order.
fill_qty(o, ev) == ev.cum_qty - o.filled_qty

\* Division of decimals kept at the price precision: the quotient is rounded to
\* the nearest unit of the last place (n >= 0, d > 0).
RoundDiv(n, d) == (2 * n + d) \div (2 * d)

\* A mean of the old average and the fill price that ignores the quantities.
calculate_avg_price_Unweighted(o, ev) ==
    IF o.filled_qty = 0 THEN ev.px ELSE RoundDiv(o.avg_price + ev.px, 2)

\* Fill accounting:
\* new_avg = (old_avg*old_cum + fill_px*fill_qty) / (old_cum + fill_qty).
calculate_avg_price(o, ev) ==
    RoundDiv(o.avg_price * o.filled_qty + ev.px * fill_qty(o, ev),
             o.filled_qty + fill_qty(o, ev))

\* An order that takes every fill, whatever its cumulative quantity.
OverFill_Unchecked(o, ev) == FALSE

\* A fill event is an integrity fault when its cumulative quantity exceeds the
\* quantity of the order.
OverFill(o, ev) == ev.kind \in FillKinds /\ ev.cum_qty > o.quantity

\* Order.apply(event): an over-fill marks the order INVALID; an event without
\* a row leaves the order as it is; a fill updates the cumulative and leaves
\* quantities and the average price and is recorded; OrderModified replaces
\* the quantity.
ApplyEvent(o, ev) ==
    IF is_completed(o) \/ ~(ev.kind \in FillKinds \/ HasRow(o.state, ev.kind))
      THEN o
    ELSE IF OverFill(o, ev)
      THEN [o EXCEPT !.state = "INVALID"]
    ELSE IF ~HasRow(o.state, ev.kind)
      THEN o
    ELSE IF ev.kind \in FillKinds
      THEN [o EXCEPT !.state = Transition(o.state, ev.kind),
                     !.filled_qty = ev.cum_qty,
                     !.leaves_qty = IF ev.kind = "OrderFilled" THEN 0
                                    ELSE o.quantity - ev.cum_qty,
                     !.avg_price = calculate_avg_price(o, ev),
                     !.fills = Append(@, <<fill_qty(o, ev), ev.px>>)]
    ELSE IF ev.kind = "OrderModified"
      THEN [o EXCEPT !.quantity = ev.quantity,
                     !.leaves_qty = ev.quantity - o.filled_qty]
    ELSE [o EXCEPT !.state = Transition(o.state, ev.kind)]

\* ------------------------------------------------------------- handlers
\* ExecutionEngine._handle_event: apply the event to its order through the
\* database (an event for an order that is not cached changes nothing).
handle_event(os, ev) ==
    IF ev.oid \in DOMAIN os
      THEN [os EXCEPT ![ev.oid] = ApplyEvent(os[ev.oid], ev)]
      ELSE os

\* portfolio.process_event for every event, over-fills included.
portfolio_process_event_Unchecked(pos, o, ev) ==
    IF ev.kind \in FillKinds THEN pos + fill_qty(o, ev) ELSE pos

\* The event is forwarded to portfolio.process_event once the order has taken
\* it: a fill the order (o, before the event) accepts changes the position by
\* its quantity; an over-fill or an ignored event changes no position.
portfolio_process_event(pos, o, ev) ==
    IF ev.kind \in FillKinds /\ ApplyEvent(o, ev).state \in {"PARTIALLY_FILLED", "FILLED"}
         /\ ~is_completed(o)
      THEN pos + fill_qty(o, ev)
      ELSE pos

\* The position after the engine has handled ev.
position_after(pos, os, ev) ==
    IF ev.oid \in DOMAIN os
      THEN portfolio_process_event(pos, os[ev.oid], ev)
      ELSE pos

\* A projection that applies every event it is given, seen before or not.
portfolio_deduplicate_Absent(pos, seen, os, ev) == position_after(pos, os, ev)

\* The portfolio projection deduplicates by event id: an event whose id it has
\* processed before changes no position.
portfolio_deduplicate(pos, seen, os, ev) ==
    IF ev.eid \in seen THEN pos ELSE position_after(pos, os, ev)

\* ExecutionEngine._execute_command: route to the client of the command's venue;
\* without such a client the command is logged and discarded.
execute_command(r, cs, cmd) ==
    IF cmd.venue \in cs THEN Append(r, <<cmd.venue, cmd.id>>) ELSE r

\* -------------------------------------------------------------- consumer
\* A loop that ends when it dequeues the sentinel, whatever is_running says.
AfterMessage_SentinelStops(msg, raises, running) ==
    IF msg = None THEN "done"
    ELSE IF raises THEN "failed"
    ELSE IF running THEN "waiting"
    ELSE "done"

\* Where the coroutine stands after one pass through the loop body: a handler
\* that raises anything but CancelledError ends the coroutine (the try at
\* lines 280-296 has no other except clause); otherwise the while condition is
\* evaluated again.
AfterMessage(msg, raises, running) ==
    IF msg # None /\ raises THEN "failed"
    ELSE IF running THEN "waiting"
    ELSE "done"

\* First scheduling of the task: a cancelled task never enters the coroutine;
\* otherwise `while self.is_running` is evaluated and the task suspends in get().
run_start(t) ==
    /\ tasks[t] = "pending"
    /\ tasks' = [tasks EXCEPT ![t] =
                    IF t \in cancel_req THEN "cancelled"
                    ELSE IF is_running THEN "waiting" ELSE "done"]
    /\ cancel_req' = cancel_req \ {t}
    /\ UNCHANGED <<queue, is_running, run_queue_task, state, raised, submitted,
                   handled, routed>>
    /\ UNCHANGED <<clients, orders, position, processed_ids, recon, recon_result,
                   now, codec, data_client, tick_pair>>

\* CancelledError is delivered at the await of line 282 and caught at line 291:
\* the coroutine logs and returns.
run_cancelled(t) ==
    /\ tasks[t] = "waiting"
    /\ t \in cancel_req
    /\ tasks' = [tasks EXCEPT ![t] = "done"]
    /\ cancel_req' = cancel_req \ {t}
    /\ UNCHANGED <<queue, is_running, run_queue_task, state, raised, submitted,
                   handled, routed>>
    /\ UNCHANGED <<clients, orders, position, processed_ids, recon, recon_result,
                   now, codec, data_client, tick_pair>>

\* A consumer that hands every message that is not an event to the command
\* handler.
run_message_Untyped(t, raises) ==
    /\ tasks[t] = "waiting"
    /\ t \notin cancel_req
    /\ queue # <<>>
    /\ LET message == Head(queue) IN
         /\ queue' = Tail(queue)
         /\ handled' = IF message = None THEN handled
                       ELSE Append(handled, message.id)
         /\ orders' = IF message.type = "EVENT" /\ ~raises
                        THEN handle_event(orders, message) ELSE orders
         /\ position' = IF message.type = "EVENT" /\ ~raises
                          THEN portfolio_deduplicate(position, processed_ids,
                                                     orders, message)
                          ELSE position
         /\ processed_ids' = IF message.type = "EVENT" /\ ~raises
                               THEN processed_ids \cup {message.eid}
                               ELSE processed_ids
         /\ routed' = IF message.type \notin {"EVENT", "NONE"} /\ ~raises
                        THEN execute_command(routed, clients, message) ELSE routed
         /\ tasks' = [tasks EXCEPT ![t] = AfterMessage(message, raises, is_running)]
    /\ UNCHANGED <<is_running, run_queue_task, state, cancel_req, raised,
                   submitted>>
    /\ UNCHANGED <<clients, recon, recon_result, now, codec, data_client, tick_pair>>

\* get() returns the head of the queue; the message is dispatched by type and
\* the loop returns to its condition.  Nothing between the return of get() and
\* the next get() awaits.  `raises` is the environment's choice of whether the
\* handler called for the message raises an exception.
run_message(t, raises) ==
    /\ tasks[t] = "waiting"
    /\ t \notin cancel_req
    /\ queue # <<>>
    /\ LET message == Head(queue) IN
         /\ queue' = Tail(queue)
         /\ handled' = IF message = None THEN handled
                       ELSE Append(handled, message.id)
         /\ orders' = IF message.type = "EVENT" /\ ~raises
                        THEN handle_event(orders, message) ELSE orders
         /\ position' = IF message.type = "EVENT" /\ ~raises
                          THEN portfolio_deduplicate(position, processed_ids,
                                                     orders, message)
                          ELSE position
         /\ processed_ids' = IF message.type = "EVENT" /\ ~raises
                               THEN processed_ids \cup {message.eid}
                               ELSE processed_ids
         /\ routed' = IF message.type = "COMMAND" /\ ~raises
                        THEN execute_command(routed, clients, message) ELSE routed
         /\ tasks' = [tasks EXCEPT ![t] = AfterMessage(message, raises, is_running)]
    /\ UNCHANGED <<is_running, run_queue_task, state, cancel_req, raised,
                   submitted>>
    /\ UNCHANGED <<clients, recon, recon_result, now, codec, data_client, tick_pair>>

\* ------------------------------------------------------- reconcile_state
seconds == 10         \* the reconciliation timeout of line 170
TickStep == 5         \* seconds by which the modelled clock advances in one step
MaxReconciles == 2    \* reconcile_state() calls per behaviour
NoQty == 0 - 1        \* stands for "no entry" in ExecutionStateReport.order_filled

\* self._clients.items(): the registered venues in registration order.
ClientSeq(cs) == SelectSeq(<<"V1", "V2">>, LAMBDA v : v \in cs)

\* A map that lists every open order under every venue.
venue_orders_AllOpen(r, os, v) == r.open_orders

\* venue_orders[venue]
venue_orders(r, os, v) == {o \in r.open_orders : os[o].venue = v}

\* The report a client may return for the orders it was given: for each of them
\* a state (UNDEFINED: no entry in order_states) and a filled quantity
\* (NoQty: no entry in order_filled).
ReportEntries == {<<"UNDEFINED", NoQty>>, <<"WORKING", NoQty>>,
                  <<"PARTIALLY_FILLED", 1>>, <<"FILLED", Quantity>>,
                  <<"FILLED", 1>>, <<"FILLED", NoQty>>}

StateReports(asked) ==
    {[order_states |-> [o \in asked |-> e[o][1]],
      order_filled |-> [o \in asked |-> e[o][2]]] : e \in [asked -> ReportEntries]}

\* order_states.get(order.id, 0)
target_state(rep, o) ==
    IF o \in DOMAIN rep.order_states THEN rep.order_states[o] ELSE "UNDEFINED"

\* Lines 182 and 186 raise KeyError: no report for the order's venue, or a
\* FILLED / PARTIALLY_FILLED target without an order_filled entry.
RaisesKeyError(r, os, o) ==
    \/ os[o].venue \notin DOMAIN r.reports
    \/ /\ target_state(r.reports[os[o].venue], o) \in {"FILLED", "PARTIALLY_FILLED"}
       /\ \/ o \notin DOMAIN r.reports[os[o].venue].order_filled
          \/ r.reports[os[o].venue].order_filled[o] = NoQty

\* The comparison of lines 182-184 alone, without the filled quantity.
OrderResolved_StateOnly(rep, ord, o) == ord.state = target_state(rep, o)

\* Lines 182-188 for one order: does it leave `resolved` True ?
OrderResolved(rep, ord, o) ==
    /\ ord.state = target_state(rep, o)
    /\ target_state(rep, o) \in {"FILLED", "PARTIALLY_FILLED"}
         => ord.filled_qty = rep.order_filled[o]

\* Lines 180-188.
resolved(r, os) ==
    \A o \in r.open_orders : OrderResolved(r.reports[os[o].venue], os[o], o)

\* Lines 174-194: one pass of the polling loop, up to the sleep or the return.
PassResult(r, os, t) ==
    IF t >= r.timeout THEN "False"
    ELSE IF \E o \in r.open_orders : RaisesKeyError(r, os, o) THEN "KeyError"
    ELSE IF resolved(r, os) THEN "True"
    ELSE "sleep"

\* The coroutine after a pass: suspended in the sleep of line 191, or returned
\* (seen records the orders as they were when the call returned True).
AfterPass(r, os, t) ==
    IF PassResult(r, os, t) = "sleep" THEN r
    ELSE [r EXCEPT !.pc = "idle",
                   !.seen = IF PassResult(r, os, t) = "True" THEN os ELSE <<>>]

ResultAfterPass(r, os, t, old) ==
    IF PassResult(r, os, t) = "sleep" THEN old ELSE PassResult(r, os, t)

\* A deadline that is taken by the first call only and kept by the later ones.
StartPolling_KeepDeadline(r, t) ==
    [r EXCEPT !.pc = "polling",
              !.timeout = IF r.calls > 1 THEN r.timeout ELSE t + seconds]

\* Lines 170-175: once the last report has arrived the deadline is taken and the
\* first pass runs, with no await in between.
StartPolling(r, t) == [r EXCEPT !.pc = "polling", !.timeout = t + seconds]

\* Line 168: client.state_report(venue_orders[venue]) is called for the next
\* client in line; requests records the calls made, each with its orders.
Request(r, os) ==
    [r EXCEPT !.requests =
        Append(@, <<Head(r.todo), venue_orders(r, os, Head(r.todo))>>)]

\* Lines 142-161: the orders that are not completed; those whose venue has a
\* client are listed for that client, the others are only logged.  The
\* coroutine then suspends in the first state_report (line 168) or, without
\* clients, goes on to the polling loop.
reconcile_begin ==
    /\ recon.pc = "idle"
    /\ recon.calls < MaxReconciles
    /\ LET r0 == [recon EXCEPT
                   !.calls = @ + 1,
                   !.last_result = recon_result,
                   !.last_reports = IF recon_result = "True"
                                      THEN recon.reports ELSE <<>>,
                   !.open_orders = {o \in DOMAIN orders : ~is_completed(orders[o])},
                   !.todo = ClientSeq(clients),
                   !.reports = <<>>,
                   !.requests = <<>>,
                   !.pc = "reports"]
           r == IF r0.todo = <<>> THEN r0 ELSE Request(r0, orders)
           p == StartPolling(r, now)
       IN IF r.todo = <<>>
            THEN /\ recon' = AfterPass(p, orders, now)
                 /\ recon_result' = ResultAfterPass(p, orders, now, "none")
            ELSE /\ recon' = r
                 /\ recon_result' = "none"
    /\ UNCHANGED <<engine_vars, clients, orders, position, processed_ids, now, codec, data_client, tick_pair>>

\* The clients whose state_report() has been called by the current call: those
\* that have answered and the one the coroutine is suspended on.
requested(r) ==
    DOMAIN r.reports \cup (IF r.todo = <<>> THEN {} ELSE {Head(r.todo)})

\* Lines 167-168: `await client.state_report(...)` of the next client returns;
\* the request to the following client is made, or polling starts.
reconcile_report ==
    /\ recon.pc = "reports"
    /\ \E report \in StateReports(venue_orders(recon, orders, Head(recon.todo))) :
         LET v == Head(recon.todo)
             r1 == [recon EXCEPT !.todo = Tail(@),
                                 !.reports = [w \in DOMAIN @ \cup {v} |->
                                                IF w = v THEN report ELSE @[w]]]
             r == IF r1.todo = <<>> THEN r1 ELSE Request(r1, orders)
             p == StartPolling(r, now)
         IN IF r.todo = <<>>
              THEN /\ recon' = AfterPass(p, orders, now)
                   /\ recon_result' = ResultAfterPass(p, orders, now, recon_result)
              ELSE /\ recon' = r
                   /\ UNCHANGED recon_result
    /\ UNCHANGED <<engine_vars, clients, orders, position, processed_ids, now, codec, data_client, tick_pair>>

\* A pass that, besides comparing, moves every order that differs from its
\* venue's report to the reported state.
reconcile_pass_Generating ==
    /\ recon.pc = "polling"
    /\ recon' = AfterPass(recon, orders, now)
    /\ recon_result' = ResultAfterPass(recon, orders, now, recon_result)
    /\ orders' = [o \in DOMAIN orders |->
                    IF /\ o \in recon.open_orders
                       /\ orders[o].venue \in DOMAIN recon.reports
                       /\ target_state(recon.reports[orders[o].venue], o)
                            \notin {"UNDEFINED", orders[o].state}
                      THEN [orders[o] EXCEPT !.state =
                              target_state(recon.reports[orders[o].venue], o)]
                      ELSE orders[o]]
    /\ UNCHANGED <<engine_vars, clients, position, processed_ids, now, codec, data_client, tick_pair>>

\* The sleep of line 191 ends and the next pass runs.
reconcile_pass ==
    /\ recon.pc = "polling"
    /\ recon' = AfterPass(recon, orders, now)
    /\ recon_result' = ResultAfterPass(recon, orders, now, recon_result)
    /\ UNCHANGED <<engine_vars, clients, orders, position, processed_ids, now, codec, data_client, tick_pair>>

\* The clock advances; it is read only by reconcile_state, so it is advanced
\* while a call is polling and between two calls.
tick ==
    /\ recon.pc = "polling" \/ (recon.pc = "idle" /\ recon_result = "True")
    /\ now < recon.timeout
    /\ now' = now + TickStep
    /\ UNCHANGED <<engine_vars, clients, orders, position, processed_ids, recon,
                   recon_result, codec, data_client, tick_pair>>

MaxWait == 20         \* seconds the clock may advance while a report is awaited

\* Time passes while the coroutine is suspended in `await client.state_report`
\* (line 168): nothing reads the clock there, the deadline of line 171 has not
\* been taken yet.
tick_awaiting ==
    /\ recon.pc = "reports"
    /\ now < MaxWait
    /\ now' = now + TickStep
    /\ UNCHANGED <<engine_vars, clients, orders, position, processed_ids, recon,
                   recon_result, codec, data_client, tick_pair>>

\* ----------------------------------------------------------------- ticks
\* model/tick.pyx.  A str is a sequence of characters.  A Price or Quantity is
\* a fixed-precision decimal [units, precision] standing for
\* units / 10^precision; a datetime is a number of microseconds since the Unix
\* epoch, and so is the unix_timestamp of a tick (seconds in the source, with
\* the microseconds as the fraction).
MaxFields == 6        \* fields of the values strings handed to the parsers

DigitChars == <<"0", "1", "2", "3", "4", "5", "6", "7", "8", "9">>

IsDigit(c) == \E d \in 1..10 : DigitChars[d] = c

DigitValue(c) == (CHOOSE d \in 1..10 : DigitChars[d] = c) - 1

\* str(n) for an int n >= 0.
RECURSIVE Digits(_)
Digits(n) ==
    IF n < 10 THEN <<DigitChars[n + 1]>>
    ELSE Append(Digits(n \div 10), DigitChars[(n % 10) + 1])

\* The int a str of digits denotes.
RECURSIVE DigitsValue(_)
DigitsValue(str) ==
    IF str = <<>> THEN 0
    ELSE 10 * DigitsValue(SubSeq(str, 1, Len(str) - 1)) + DigitValue(str[Len(str)])

RECURSIVE PadZeros(_, _)
PadZeros(str, n) == IF Len(str) >= n THEN str ELSE PadZeros(<<"0">> \o str, n)

\* str(Price) / str(Quantity): the decimal written with all the digits of its
\* precision.
Decimal_str(d) ==
    LET ds == PadZeros(Digits(d.units), d.precision + 1)
        n == Len(ds) - d.precision
    IN IF d.precision = 0 THEN ds
       ELSE SubSeq(ds, 1, n) \o <<".">> \o SubSeq(ds, n + 1, Len(ds))

Count(str, c) == Cardinality({j \in 1..Len(str) : str[j] = c})

\* Price(str) / Quantity(str) accept a str of digits with at most one point.
IsDecimal(str) ==
    /\ \A j \in 1..Len(str) : IsDigit(str[j]) \/ str[j] = "."
    /\ Count(str, ".") <= 1
    /\ \E j \in 1..Len(str) : IsDigit(str[j])

\* Price(str) / Quantity(str): the precision is the number of digits written
\* after the point.
Decimal(str) ==
    LET k == IF Count(str, ".") = 0 THEN Len(str) + 1
             ELSE CHOOSE j \in 1..Len(str) : str[j] = "."
    IN [units |-> DigitsValue(SubSeq(str, 1, k - 1) \o SubSeq(str, k + 1, Len(str))),
        precision |-> IF k > Len(str) THEN 0 ELSE Len(str) - k]

IsLong(str) == str # <<>> /\ \A j \in 1..Len(str) : IsDigit(str[j])

NoLong == 0 - 1       \* stands for the ValueError of long()

RECURSIVE LeadingDigits(_)
LeadingDigits(str) ==
    IF str = <<>> \/ ~IsDigit(Head(str)) THEN <<>>
    ELSE <<Head(str)>> \o LeadingDigits(Tail(str))

\* A conversion that reads the leading digits and ignores what follows them.
long_Lenient(str) ==
    IF LeadingDigits(str) = <<>> THEN NoLong ELSE DigitsValue(LeadingDigits(str))

\* long(str): the int a run of digits denotes; any other str raises ValueError.
long(str) == IF IsLong(str) THEN DigitsValue(str) ELSE NoLong

\* to_unix_time_ms(datetime): whole milliseconds since the epoch.
to_unix_time_ms(timestamp) == timestamp \div 1000

\* from_unix_time_ms(long)
from_unix_time_ms(ms) == ms * 1000

\* OrderSideParser.to_str / from_str (from_str gives UNDEFINED for any other str).
OrderSide_to_str(side) ==
    IF side = "BUY" THEN <<"B", "U", "Y">> ELSE <<"S", "E", "L", "L">>

OrderSide_from_str(str) ==
    IF str = <<"B", "U", "Y">> THEN "BUY"
    ELSE IF str = <<"S", "E", "L", "L">> THEN "SELL"
    ELSE "UNDEFINED"

\* Condition.valid_string(values, 'values')
valid_string(str) == str # <<>>

\* values.split(',', maxsplit): split at the first maxsplit commas; what follows
\* them is the last piece, commas included.
RECURSIVE split(_, _)
split(str, maxsplit) ==
    IF maxsplit = 0 \/ Count(str, ",") = 0 THEN <<str>>
    ELSE LET k == CHOOSE j \in 1..Len(str) :
                      str[j] = "," /\ \A i \in 1..(j - 1) : str[i] # ","
         IN <<SubSeq(str, 1, k - 1)>> \o split(SubSeq(str, k + 1, Len(str)), maxsplit - 1)

\* QuoteTick.__init__ (lines 121-129): the unix timestamp is captured from the
\* timestamp.
QuoteTick(security, bid, ask, bid_size, ask_size, timestamp) ==
    [class |-> "QuoteTick", security |-> security, bid |-> bid, ask |-> ask,
     bid_size |-> bid_size, ask_size |-> ask_size,
     timestamp |-> timestamp, unix_timestamp |-> timestamp]

\* TradeTick.__init__ (lines 285-295), for a side that is not UNDEFINED.
TradeTick(security, price, size, side, match_id, timestamp) ==
    [class |-> "TradeTick", security |-> security, price |-> price, size |-> size,
     side |-> side, match_id |-> match_id,
     timestamp |-> timestamp, unix_timestamp |-> timestamp]

\* Tick.__eq__ (lines 62-63)
Tick_eq(a, b) == a.unix_timestamp = b.unix_timestamp

\* Tick.__ne__ (lines 65-66)
Tick_ne(a, b) == a.unix_timestamp # b.unix_timestamp

\* Tick.__hash__ (lines 80-81): hash((self.security, self.timestamp)).  The
\* hash of a tuple is a function of the tuple; the hash values of the tuples
\* that occur here are taken to be distinct, hence the tuple stands for its own
\* hash value.
Tick_hash(a) == <<a.security, a.timestamp>>

\* A serialization that writes the ask before the bid.
QuoteTick_to_serializable_str_Swapped(q) ==
    Decimal_str(q.ask) \o <<",">> \o Decimal_str(q.bid) \o <<",">>
      \o Decimal_str(q.bid_size) \o <<",">> \o Decimal_str(q.ask_size) \o <<",">>
      \o Digits(to_unix_time_ms(q.timestamp))

\* QuoteTick.to_serializable_str (line 240)
QuoteTick_to_serializable_str(q) ==
    Decimal_str(q.bid) \o <<",">> \o Decimal_str(q.ask) \o <<",">>
      \o Decimal_str(q.bid_size) \o <<",">> \o Decimal_str(q.ask_size) \o <<",">>
      \o Digits(to_unix_time_ms(q.timestamp))

\* TradeTick.to_serializable_str (lines 360-364)
TradeTick_to_serializable_str(t) ==
    Decimal_str(t.price) \o <<",">> \o Decimal_str(t.size) \o <<",">>
      \o OrderSide_to_str(t.side) \o <<",">> \o t.match_id \o <<",">>
      \o Digits(to_unix_time_ms(t.timestamp))

Exceptions == {"ValueError", "InvalidOperation"}

\* The call raises exception e and returns nothing.
Raise(e) == [class |-> e]

\* QuoteTick.from_serializable_str_c (lines 189-205): the tick, or the
\* exception the call raises.
QuoteTick_from_serializable_str_c(security, values) ==
    IF ~valid_string(values) THEN Raise("ValueError")
    ELSE LET pieces == split(values, 4) IN
      IF Len(pieces) # 5 THEN Raise("ValueError")
      ELSE IF \E j \in 1..4 : ~IsDecimal(pieces[j]) THEN Raise("InvalidOperation")
      ELSE IF long(pieces[5]) = NoLong THEN Raise("ValueError")
      ELSE QuoteTick(security, Decimal(pieces[1]), Decimal(pieces[2]),
                     Decimal(pieces[3]), Decimal(pieces[4]),
                     from_unix_time_ms(long(pieces[5])))

\* TradeTick.from_serializable_str_c (lines 309-325): the arguments are built
\* in order, then TradeTick.__init__ refuses the side UNDEFINED.
TradeTick_from_serializable_str_c(security, values) ==
    IF ~valid_string(values) THEN Raise("ValueError")
    ELSE LET pieces == split(values, 4) IN
      IF Len(pieces) # 5 THEN Raise("ValueError")
      ELSE IF \E j \in 1..2 : ~IsDecimal(pieces[j]) THEN Raise("InvalidOperation")
      ELSE IF ~valid_string(pieces[4]) THEN Raise("ValueError")
      ELSE IF long(pieces[5]) = NoLong THEN Raise("ValueError")
      ELSE IF OrderSide_from_str(pieces[3]) = "UNDEFINED" THEN Raise("ValueError")
      ELSE TradeTick(security, Decimal(pieces[1]), Decimal(pieces[2]),
                     OrderSide_from_str(pieces[3]), pieces[4],
                     from_unix_time_ms(long(pieces[5])))

to_serializable_str_of(t) ==
    IF t.class = "QuoteTick" THEN QuoteTick_to_serializable_str(t)
    ELSE TradeTick_to_serializable_str(t)

from_serializable_str_of(class, security, values) ==
    IF class = "QuoteTick" THEN QuoteTick_from_serializable_str_c(security, values)
    ELSE TradeTick_from_serializable_str_c(security, values)

\* No tick is being serialized or parsed.
NoTick == [class |-> "none"]

NoCodec == [pc |-> "none", class |-> "none", security |-> "-", tick |-> NoTick,
            values |-> <<>>, result |-> NoTick]

NoPair == [pc |-> "none", a |-> NoTick, b |-> NoTick,
           eq |-> FALSE, ne |-> FALSE, hash_a |-> <<>>, hash_b |-> <<>>]

\* a == b, a != b, hash(a) and hash(b) are evaluated.
compare ==
    /\ tick_pair.pc = "ticks"
    /\ tick_pair' = [tick_pair EXCEPT !.pc = "compared",
                                      !.eq = Tick_eq(tick_pair.a, tick_pair.b),
                                      !.ne = Tick_ne(tick_pair.a, tick_pair.b),
                                      !.hash_a = Tick_hash(tick_pair.a),
                                      !.hash_b = Tick_hash(tick_pair.b)]
    /\ UNCHANGED <<engine_vars, clients, orders, position, processed_ids, recon,
                   recon_result, now, codec, data_client>>

\* tick.to_serializable_str()
to_serializable_str ==
    /\ codec.pc = "tick"
    /\ codec' = [codec EXCEPT !.pc = "values",
                              !.values = to_serializable_str_of(codec.tick)]
    /\ UNCHANGED <<engine_vars, clients, orders, position, processed_ids, recon,
                   recon_result, now, data_client, tick_pair>>

\* QuoteTick.from_serializable_str(security, values) or
\* TradeTick.from_serializable_str(security, values)
from_serializable_str ==
    /\ codec.pc = "values"
    /\ codec' = [codec EXCEPT !.pc = "parsed",
                              !.result = from_serializable_str_of(
                                             codec.class, codec.security, codec.values)]
    /\ UNCHANGED <<engine_vars, clients, orders, position, processed_ids, recon,
                   recon_result, now, data_client, tick_pair>>

\* ------------------------------------------------- backtest data client
\* backtest/data_client.pyx.  A Security is [symbol, venue]; an Instrument is
\* its security and a price precision.  self._instruments is a dict: modelled
\* as the sequence of its values in insertion order, keyed by their security.
\* data_client.log is what the latest call wrote to the log, data_client.call
\* the latest call with its arguments, data_client.last_connect the latest of
\* the connect and disconnect calls, data_client.responses what
\* _handle_instruments passed on to the data engine.  A constructor that
\* raises leaves no client: data_client.pc is "failed".
MaxInstruments == 2   \* length of the instruments list given to the constructor
MaxResponses == 2     \* responses delivered per behaviour

Securities == {[symbol |-> "AUD/USD", venue |-> "SIM"],
               [symbol |-> "GBP/USD", venue |-> "SIM"],
               [symbol |-> "BTC/USDT", venue |-> "BINANCE"]}

Instruments ==
    {[security |-> [symbol |-> "AUD/USD", venue |-> "SIM"], price_precision |-> 5],
     [security |-> [symbol |-> "AUD/USD", venue |-> "SIM"], price_precision |-> 3],
     [security |-> [symbol |-> "GBP/USD", venue |-> "SIM"], price_precision |-> 5],
     [security |-> [symbol |-> "BTC/USDT", venue |-> "BINANCE"], price_precision |-> 2]}


\* d[key] = value on a dict: the value replaces the one under the same key, in
\* place, or is appended.
dict_set(d, value) ==
    IF \E j \in 1..Len(d) : d[j].security = value.security
      THEN [j \in 1..Len(d) |-> IF d[j].security = value.security THEN value ELSE d[j]]
      ELSE Append(d, value)

\* d.get(key): the value under the key as a list of at most one element
\* (<<>> stands for None).
dict_get(d, security) == SelectSeq(d, LAMBDA i : i.security = security)

\* Lines 68-77 without the Condition.equal of lines 71-76.
init_instruments_Unchecked(instruments, name, d) ==
    [ok |-> TRUE, dict |-> instruments]

\* Lines 68-77: the loop over the instruments; Condition.equal raises when an
\* instrument's venue is not the client's name.
RECURSIVE init_instruments(_, _, _)
init_instruments(instruments, name, d) ==
    IF instruments = <<>> THEN [ok |-> TRUE, dict |-> d]
    ELSE IF Head(instruments).security.venue # name THEN [ok |-> FALSE, dict |-> <<>>]
    ELSE init_instruments(Tail(instruments), name, dict_set(d, Head(instruments)))

\* A call of op, its arguments still to be filled in.
Call(op) == [op |-> op, instruments |-> <<>>, name |-> "-",
             security |-> [symbol |-> "-", venue |-> "-"], bar_type |-> "-",
             correlation_id |-> 0]

NoDataClient == [pc |-> "none", name |-> "-", instruments |-> <<>>,
                 is_connected |-> FALSE, log |-> <<>>, responses |-> <<>>,
                 call |-> Call("none"), last_connect |-> "none"]

\* BacktestMarketDataClient(instruments, name, ...)
BacktestMarketDataClient(instruments, name) ==
    /\ data_client.pc = "none"
    /\ LET r == init_instruments(instruments, name, <<>>)
           call == [Call("__init__") EXCEPT !.instruments = instruments,
                                            !.name = name]
       IN data_client' =
            IF r.ok
              THEN [data_client EXCEPT !.pc = "constructed",
                                       !.name = name,
                                       !.instruments = r.dict,
                                       !.is_connected = FALSE,
                                       !.call = call]
              ELSE [data_client EXCEPT !.pc = "failed", !.call = call]
    /\ UNCHANGED <<engine_vars, clients, orders, position, processed_ids, recon,
                   recon_result, now, codec, tick_pair>>

\* Everything but the data client: the execution engine's side of the model.
engine_side == <<engine_vars, clients, orders, position, processed_ids, recon,
                 recon_result, now, codec, tick_pair>>

\* Lines 83-90.
connect ==
    /\ data_client.pc = "constructed"
    /\ data_client' = [data_client EXCEPT !.is_connected = TRUE,
                                          !.log = <<"INFO", "INFO">>,
                                          !.call = Call("connect"),
                                          !.last_connect = "connect"]
    /\ UNCHANGED engine_side

\* A disconnect that flips the flag.
disconnect_Toggle ==
    /\ data_client.pc = "constructed"
    /\ data_client' = [data_client EXCEPT !.is_connected = ~data_client.is_connected,
                                          !.log = <<"INFO", "INFO">>,
                                          !.call = Call("disconnect"),
                                          !.last_connect = "disconnect"]
    /\ UNCHANGED engine_side

\* Lines 92-99.
disconnect ==
    /\ data_client.pc = "constructed"
    /\ data_client' = [data_client EXCEPT !.is_connected = FALSE,
                                          !.log = <<"INFO", "INFO">>,
                                          !.call = Call("disconnect"),
                                          !.last_connect = "disconnect"]
    /\ UNCHANGED engine_side

\* Lines 101-110: nothing is reset.
reset ==
    /\ data_client.pc = "constructed"
    /\ data_client' = [data_client EXCEPT !.log = <<"DEBUG", "INFO">>,
                                          !.call = Call("reset")]
    /\ UNCHANGED engine_side

\* Lines 112-120.
dispose ==
    /\ data_client.pc = "constructed"
    /\ data_client' = [data_client EXCEPT !.log = <<"INFO">>,
                                          !.call = Call("dispose")]
    /\ UNCHANGED engine_side

\* The body shared by the operations that do nothing for a backtest: an error
\* is logged when the client is not connected, nothing happens otherwise.
gated(dc, call) ==
    [dc EXCEPT !.log = IF dc.is_connected THEN <<>> ELSE <<"ERROR">>,
               !.call = call]

\* Lines 124-140.
subscribe_instrument(security) ==
    /\ data_client.pc = "constructed"
    /\ data_client' = gated(data_client, [Call("subscribe_instrument") EXCEPT
                                            !.security = security])
    /\ UNCHANGED engine_side

\* Lines 142-170.
subscribe_order_book(security) ==
    /\ data_client.pc = "constructed"
    /\ data_client' = gated(data_client, [Call("subscribe_order_book") EXCEPT
                                            !.security = security])
    /\ UNCHANGED engine_side

\* Lines 172-188.
subscribe_quote_ticks(security) ==
    /\ data_client.pc = "constructed"
    /\ data_client' = gated(data_client, [Call("subscribe_quote_ticks") EXCEPT
                                            !.security = security])
    /\ UNCHANGED engine_side

\* Lines 190-206.
subscribe_trade_ticks(security) ==
    /\ data_client.pc = "constructed"
    /\ data_client' = gated(data_client, [Call("subscribe_trade_ticks") EXCEPT
                                            !.security = security])
    /\ UNCHANGED engine_side

\* Lines 208-225: an error is logged whether connected or not.
subscribe_bars(bar_type) ==
    /\ data_client.pc = "constructed"
    /\ data_client' = [data_client EXCEPT
                         !.log = <<"ERROR">>,
                         !.call = [Call("subscribe_bars") EXCEPT
                                     !.bar_type = bar_type]]
    /\ UNCHANGED engine_side

\* Lines 227-243.
unsubscribe_instrument(security) ==
    /\ data_client.pc = "constructed"
    /\ data_client' = gated(data_client, [Call("unsubscribe_instrument") EXCEPT
                                            !.security = security])
    /\ UNCHANGED engine_side

\* Lines 245-261.
unsubscribe_order_book(security) ==
    /\ data_client.pc = "constructed"
    /\ data_client' = gated(data_client, [Call("unsubscribe_order_book") EXCEPT
                                            !.security = security])
    /\ UNCHANGED engine_side

\* Lines 263-279.
unsubscribe_quote_ticks(security) ==
    /\ data_client.pc = "constructed"
    /\ data_client' = gated(data_client, [Call("unsubscribe_quote_ticks") EXCEPT
                                            !.security = security])
    /\ UNCHANGED engine_side

\* Lines 281-297.
unsubscribe_trade_ticks(security) ==
    /\ data_client.pc = "constructed"
    /\ data_client' = gated(data_client, [Call("unsubscribe_trade_ticks") EXCEPT
                                            !.security = security])
    /\ UNCHANGED engine_side

\* Lines 299-318: an error is logged whether connected or not.
unsubscribe_bars(bar_type) ==
    /\ data_client.pc = "constructed"
    /\ data_client' = [data_client EXCEPT
                         !.log = <<"ERROR">>,
                         !.call = [Call("unsubscribe_bars") EXCEPT
                                     !.bar_type = bar_type]]
    /\ UNCHANGED engine_side

\* self._handle_instruments(instruments, correlation_id): the response is
\* passed to the data engine.
handle_instruments(dc, instruments, correlation_id) ==
    [dc EXCEPT !.responses = Append(@, [instruments |-> instruments,
                                        correlation_id |-> correlation_id])]

\* A request_instrument that answers with every instrument of the client.
request_instrument_All(security, correlation_id) ==
    /\ data_client.pc = "constructed"
    /\ Len(data_client.responses) < MaxResponses
    /\ LET call == [Call("request_instrument") EXCEPT
                      !.security = security, !.correlation_id = correlation_id]
           instrument == dict_get(data_client.instruments, security)
       IN data_client' =
            IF ~data_client.is_connected
              THEN [data_client EXCEPT !.log = <<"ERROR">>, !.call = call]
            ELSE IF instrument = <<>>
              THEN [data_client EXCEPT !.log = <<"WARNING">>, !.call = call]
            ELSE handle_instruments([data_client EXCEPT !.log = <<>>, !.call = call],
                                    data_client.instruments, correlation_id)
    /\ UNCHANGED engine_side

\* Lines 322-347.
request_instrument(security, correlation_id) ==
    /\ data_client.pc = "constructed"
    /\ Len(data_client.responses) < MaxResponses
    /\ LET call == [Call("request_instrument") EXCEPT
                      !.security = security, !.correlation_id = correlation_id]
           instrument == dict_get(data_client.instruments, security)
       IN data_client' =
            IF ~data_client.is_connected
              THEN [data_client EXCEPT !.log = <<"ERROR">>, !.call = call]
            ELSE IF instrument = <<>>
              THEN [data_client EXCEPT !.log = <<"WARNING">>, !.call = call]
            ELSE handle_instruments([data_client EXCEPT !.log = <<>>, !.call = call],
                                    instrument, correlation_id)
    /\ UNCHANGED engine_side

\* Lines 349-361: no test of is_connected.
request_instruments(correlation_id) ==
    /\ data_client.pc = "constructed"
    /\ Len(data_client.responses) < MaxResponses
    /\ data_client' = handle_instruments(
                         [data_client EXCEPT
                            !.log = <<>>,
                            !.call = [Call("request_instruments") EXCEPT
                                        !.correlation_id = correlation_id]],
                         data_client.instruments, correlation_id)
    /\ UNCHANGED engine_side

\* Lines 363-396.
request_quote_ticks(security, correlation_id) ==
    /\ data_client.pc = "constructed"
    /\ data_client' = gated(data_client, [Call("request_quote_ticks") EXCEPT
                                            !.security = security,
                                            !.correlation_id = correlation_id])
    /\ UNCHANGED engine_side

\* Lines 398-432.
request_trade_ticks(security, correlation_id) ==
    /\ data_client.pc = "constructed"
    /\ data_client' = gated(data_client, [Call("request_trade_ticks") EXCEPT
                                            !.security = security,
                                            !.correlation_id = correlation_id])
    /\ UNCHANGED engine_side

\* Lines 434-468.
request_bars(bar_type, correlation_id) ==
    /\ data_client.pc = "constructed"
    /\ data_client' = gated(data_client, [Call("request_bars") EXCEPT
                                            !.bar_type = bar_type,
                                            !.correlation_id = correlation_id])
    /\ UNCHANGED engine_side

\* ------------------------------------------------------------------ init
\* An order of quantity q as the database holds it: in state s, with f filled
\* (in one fill at BasePx when f > 0).
OrderOf(v, s, f, q) ==
    [venue |-> v, state |-> s, quantity |-> q,
     filled_qty |-> f, leaves_qty |-> q - f,
     avg_price |-> IF f = 0 THEN 0 ELSE BasePx,
     fills |-> IF f = 0 THEN <<>> ELSE << <<f, BasePx>> >>]

NewOrder(v, s, f) == OrderOf(v, s, f, Quantity)

\* load_positions(): the net filled quantity of the cached orders.
RECURSIVE SumFilled(_, _)
SumFilled(os, ids) ==
    IF ids = {} THEN 0
    ELSE LET o == CHOOSE x \in ids : TRUE
         IN os[o].filled_qty + SumFilled(os, ids \ {o})

load_positions(os) == SumFilled(os, DOMAIN os)

IdleRecon == [pc |-> "idle", calls |-> 0, open_orders |-> {}, todo |-> <<>>,
              reports |-> <<>>, requests |-> <<>>, timeout |-> 0,
              seen |-> <<>>, last_result |-> "none", last_reports |-> <<>>]

\* The engine after construction, with execution clients registered for cs.
InitClients(cs) ==
    /\ queue = <<>>
    /\ is_running = FALSE
    /\ run_queue_task = 0
    /\ state = "INITIALIZED"
    /\ tasks = [t \in TaskIds |-> "none"]
    /\ cancel_req = {}
    /\ raised = "none"
    /\ submitted = 0
    /\ handled = <<>>
    /\ routed = <<>>
    /\ clients = cs
    /\ recon = IdleRecon
    /\ recon_result = "none"
    /\ now = 0
    /\ processed_ids = {}

InitEngine == InitClients({"V1"})

Init ==
    /\ InitEngine
    /\ orders = [o \in OrderIds |-> NewOrder("V1", "SUBMITTED", 0)]
    /\ position = load_positions(orders)
    /\ codec = NoCodec
    /\ data_client = NoDataClient
    /\ tick_pair = NoPair

\* The messages the strategies and the clients hand to the engine.
Commands(i) == {Command(i, "V1")}

Events(i) == {Event(i, "OrderAccepted", 1, 0)}

Next ==
    \/ /\ submitted < MaxMsgs
       /\ \E c \in Commands(submitted + 1) : execute(c)
    \/ /\ submitted < MaxMsgs
       /\ \E e \in Events(submitted + 1) : process(e)
    \/ execute(None)
    \/ process(None)
    \/ start
    \/ stop
    \/ kill
    \/ \E t \in TaskIds : run_start(t)
    \/ \E t \in TaskIds : run_cancelled(t)
    \/ \E t \in TaskIds, raises \in BOOLEAN : run_message(t, raises)

Spec == Init /\ [][Next]_vars

\* The message flow alone: producers and one consumer, no stop and no kill.
MaxFlowMsgs == 4      \* execute()/process() calls per behaviour of SpecFlow

NextFlow ==
    \/ /\ submitted < MaxFlowMsgs
       /\ \E c \in Commands(submitted + 1) : execute(c)
    \/ /\ submitted < MaxFlowMsgs
       /\ \E e \in Events(submitted + 1) : process(e)
    \/ start
    \/ \E t \in TaskIds : run_start(t)
    \/ \E t \in TaskIds, raises \in BOOLEAN : run_message(t, raises)

SpecFlow == Init /\ [][NextFlow]_vars

\* The engine with cached orders loaded from the database, reconciling.
MaxReconMsgs == 2     \* execute()/process() calls per behaviour of SpecRecon

InitOrders ==
    {[o \in OrderIds |-> IF o = 1 THEN a ELSE b] :
        a \in {NewOrder("V1", "SUBMITTED", 0), NewOrder("V1", "WORKING", 0),
               NewOrder("V1", "PARTIALLY_FILLED", 1)},
        b \in {NewOrder("V1", "WORKING", 0), NewOrder("V1", "FILLED", Quantity),
               NewOrder("V2", "WORKING", 0)}}

InitRecon ==
    /\ InitEngine
    /\ orders \in InitOrders
    /\ position = load_positions(orders)
    /\ codec = NoCodec
    /\ data_client = NoDataClient
    /\ tick_pair = NoPair

ReconEvents(i) ==
    {Event(i, "OrderPartiallyFilled", 1, 1), Event(i, "OrderFilled", 1, Quantity)}

NextRecon ==
    \/ /\ submitted < MaxReconMsgs
       /\ \E c \in Commands(submitted + 1) : execute(c)
    \/ /\ submitted < MaxReconMsgs
       /\ \E e \in ReconEvents(submitted + 1) : process(e)
    \/ start
    \/ \E t \in TaskIds : run_start(t)
    \/ \E t \in TaskIds : run_message(t, FALSE)
    \/ reconcile_begin
    \/ reconcile_report
    \/ reconcile_pass
    \/ tick

SpecRecon == InitRecon /\ [][NextRecon]_vars

\* Commands for every venue, with an execution client registered for V1 only.
MaxRouteMsgs == 4     \* execute() calls per behaviour of SpecRoute

VenueCommands(i) == {Command(i, v) : v \in Venues}

NextRoute ==
    \/ /\ submitted < MaxRouteMsgs
       /\ \E c \in VenueCommands(submitted + 1) : execute(c)
    \/ start
    \/ \E t \in TaskIds : run_start(t)
    \/ \E t \in TaskIds : run_message(t, FALSE)

SpecRoute == Init /\ [][NextRoute]_vars

\* Reconciliation with an execution client registered for each of two venues.
InitReports ==
    /\ InitClients(Venues)
    /\ orders \in InitOrders
    /\ position = load_positions(orders)
    /\ codec = NoCodec
    /\ data_client = NoDataClient
    /\ tick_pair = NoPair

NextReports ==
    \/ reconcile_begin
    \/ reconcile_report
    \/ reconcile_pass
    \/ tick

SpecReports == InitReports /\ [][NextReports]_vars

\* Reconciliation with a client that synthesizes the missing events: order 1 is
\* SUBMITTED in the cache; once the client has reported it FILLED it passes the
\* events that lead there to process(), in order, while reconcile_state polls.
\* Everything happens well within the timeout (the clock does not advance).
SynthesizedKinds ==
    <<"OrderAccepted", "OrderWorking", "OrderPartiallyFilled", "OrderFilled">>

Synthesized(i) ==
    Event(i, SynthesizedKinds[i], 1,
          CASE SynthesizedKinds[i] = "OrderFilled" -> Quantity
            [] SynthesizedKinds[i] = "OrderPartiallyFilled" -> 1
            [] OTHER -> 0)

ReportedFilled(r) ==
    /\ "V1" \in DOMAIN r.reports
    /\ 1 \in DOMAIN r.reports["V1"].order_states
    /\ r.reports["V1"].order_states[1] = "FILLED"
    /\ r.reports["V1"].order_filled[1] = Quantity

client_synthesizes ==
    /\ recon.pc = "polling"
    /\ ReportedFilled(recon)
    /\ submitted < Len(SynthesizedKinds)
    /\ process(Synthesized(submitted + 1))

InitConverge ==
    /\ InitEngine
    /\ orders \in {[o \in OrderIds |-> IF o = 1 THEN NewOrder("V1", "SUBMITTED", 0)
                                                ELSE b] :
                      b \in {NewOrder("V1", "WORKING", 0),
                             NewOrder("V1", "FILLED", Quantity)}}
    /\ position = load_positions(orders)
    /\ codec = NoCodec
    /\ data_client = NoDataClient
    /\ tick_pair = NoPair

NextConverge ==
    \/ start
    \/ \E t \in TaskIds : run_start(t)
    \/ \E t \in TaskIds : run_message(t, FALSE)
    \/ reconcile_begin
    \/ reconcile_report
    \/ reconcile_pass
    \/ client_synthesizes

\* The event loop runs every task that is ready, and the client does submit
\* the events.
SpecConverge ==
    /\ InitConverge
    /\ [][NextConverge]_vars
    /\ \A t \in TaskIds : WF_vars(run_start(t))
    /\ \A t \in TaskIds : WF_vars(run_message(t, FALSE))
    /\ WF_vars(reconcile_report)
    /\ WF_vars(reconcile_pass)
    /\ WF_vars(client_synthesizes)

\* The order state machine driven in lockstep: the client hands one event for
\* order 1 to process() and the consumer dispatches it before the next one.
MaxOrderEvents == 3   \* process() calls per behaviour of SpecOrder

OrderKinds == {"OrderSubmitted", "OrderRejected", "OrderAccepted", "OrderWorking",
               "OrderModified", "OrderCancelled", "OrderExpired",
               "OrderPartiallyFilled", "OrderFilled", "OrderTriggered"}

Prices == {BasePx, BasePx + 10}

OrderEvents(i) ==
    {OrderEvent(i, k, 1, 0, BasePx, Quantity + 1) :
        k \in OrderKinds \ (FillKinds \cup {"OrderModified"})}
    \cup {OrderEvent(i, "OrderModified", 1, 0, BasePx, q) :
        q \in {Quantity, Quantity + 1}}
    \cup {OrderEvent(i, k, 1, c, p, Quantity + 1) :
        k \in FillKinds, c \in 1..(Quantity + 2), p \in Prices}

InitOrder ==
    /\ InitEngine
    /\ orders \in {[o \in OrderIds |-> IF o = 1 THEN a
                                        ELSE NewOrder("V1", "FILLED", Quantity)] :
                      a \in {OrderOf("V1", "INITIALIZED", 0, Quantity + 1),
                             OrderOf("V1", "SUBMITTED", 0, Quantity + 1),
                             OrderOf("V1", "ACCEPTED", 0, Quantity + 1),
                             OrderOf("V1", "WORKING", 0, Quantity + 1),
                             OrderOf("V1", "PARTIALLY_FILLED", 1, Quantity + 1)}}
    /\ position = load_positions(orders)
    /\ codec = NoCodec
    /\ data_client = NoDataClient
    /\ tick_pair = NoPair

NextOrder ==
    \/ /\ queue = <<>>
       /\ submitted < MaxOrderEvents
       /\ \E e \in OrderEvents(submitted + 1) : process(e)
    \/ start
    \/ \E t \in TaskIds : run_start(t)
    \/ \E t \in TaskIds : run_message(t, FALSE)

SpecOrder == InitOrder /\ [][NextOrder]_vars

\* Ticks on their way through the wire form: a tick is serialized and the
\* values string parsed with the tick's security, or a values string arrives
\* from elsewhere and is parsed.
TickPrices == {[units |-> 10, precision |-> 1], [units |-> 5, precision |-> 0],
               [units |-> 5, precision |-> 2]}

TickSizes == {[units |-> 1, precision |-> 0]}

Timestamps == {1000, 1500, 12000}

MatchIds == {<<"a">>, <<"a", ",", "b">>}

Ticks ==
    {QuoteTick("S1", b, a, bs, as, ts) :
        b \in TickPrices, a \in TickPrices, bs \in TickSizes, as \in TickSizes,
        ts \in Timestamps}
    \cup {TradeTick("S1", px, sz, sd, m, ts) :
        px \in TickPrices, sz \in TickSizes, sd \in {"BUY", "SELL"},
        m \in MatchIds, ts \in Timestamps}

FieldPool == {<<>>, <<"1">>, <<"B", "U", "Y">>}

\* ",".join(fields)
RECURSIVE Join(_)
Join(fields) ==
    IF fields = <<>> THEN <<>>
    ELSE IF Len(fields) = 1 THEN fields[1]
    ELSE fields[1] \o <<",">> \o Join(Tail(fields))

ValuesStrings ==
    UNION {{Join(fields) : fields \in [1..n -> FieldPool]} : n \in 1..MaxFields}

InitTick ==
    /\ InitEngine
    /\ orders = [o \in OrderIds |-> NewOrder("V1", "SUBMITTED", 0)]
    /\ position = load_positions(orders)
    /\ codec \in {[NoCodec EXCEPT !.pc = "tick", !.class = t.class,
                                  !.security = t.security, !.tick = t] : t \in Ticks}
               \cup {[NoCodec EXCEPT !.pc = "values", !.class = c,
                                     !.security = "S1", !.values = v] :
                       c \in {"QuoteTick", "TradeTick"}, v \in ValuesStrings}
    /\ data_client = NoDataClient
    /\ tick_pair = NoPair

NextTick ==
    \/ to_serializable_str
    \/ from_serializable_str

SpecTick == InitTick /\ [][NextTick]_vars

\* Replays: the client hands the fills of order 1 to process(), and may hand
\* any of them again with the same event id (a replay during reconciliation).
MaxReplayMsgs == 4    \* process() calls per behaviour of SpecReplay

\* The fill that brings order 1 (quantity Quantity + 1) to the cumulative
\* quantity c; its event id is c.
FillEvent(i, c) ==
    [OrderEvent(i, IF c = Quantity + 1 THEN "OrderFilled" ELSE "OrderPartiallyFilled",
                1, c, BasePx, Quantity + 1) EXCEPT !.eid = c]

ReplayEvents(i) == {FillEvent(i, c) : c \in 1..(Quantity + 1)}

InitReplay ==
    /\ InitEngine
    /\ orders \in {[o \in OrderIds |-> IF o = 1
                                        THEN OrderOf("V1", "WORKING", 0, Quantity + 1)
                                        ELSE b] :
                      b \in {NewOrder("V1", "WORKING", 0),
                             NewOrder("V1", "FILLED", Quantity)}}
    /\ position = load_positions(orders)
    /\ codec = NoCodec
    /\ data_client = NoDataClient
    /\ tick_pair = NoPair

NextReplay ==
    \/ /\ submitted < MaxReplayMsgs
       /\ \E e \in ReplayEvents(submitted + 1) : process(e)
    \/ start
    \/ \E t \in TaskIds : run_start(t)
    \/ \E t \in TaskIds : run_message(t, FALSE)

SpecReplay == InitReplay /\ [][NextReplay]_vars

\* Dispatch by type: commands, events and messages of another type.
MaxDispatchMsgs == 3  \* execute()/process() calls per behaviour of SpecDispatch

DispatchEvents(i) ==
    {Event(i, "OrderAccepted", 1, 0), Event(i, "OrderPartiallyFilled", 2, 1)}

InitDispatch ==
    /\ InitEngine
    /\ orders = [o \in OrderIds |-> IF o = 1 THEN NewOrder("V1", "SUBMITTED", 0)
                                     ELSE NewOrder("V1", "WORKING", 0)]
    /\ position = load_positions(orders)
    /\ codec = NoCodec
    /\ data_client = NoDataClient
    /\ tick_pair = NoPair

NextDispatch ==
    \/ /\ submitted < MaxDispatchMsgs
       /\ \E c \in Commands(submitted + 1) : execute(c)
    \/ /\ submitted < MaxDispatchMsgs
       /\ \E e \in DispatchEvents(submitted + 1) : process(e)
    \/ /\ submitted < MaxDispatchMsgs
       /\ process(Document(submitted + 1))
    \/ start
    \/ \E t \in TaskIds : run_start(t)
    \/ \E t \in TaskIds : run_message(t, FALSE)

SpecDispatch == InitDispatch /\ [][NextDispatch]_vars

\* The states the table leads to from the states of S in any number of events.
RECURSIVE TableReachable(_)
TableReachable(S) ==
    LET T == S \cup {Transition(s, k) : s \in S, k \in OrderKinds}
    IN IF T = S THEN S ELSE TableReachable(T)

\* Graceful shutdown: producers, start and stop, no kill and no failing handler.
NextStop ==
    \/ /\ submitted < MaxMsgs
       /\ \E c \in Commands(submitted + 1) : execute(c)
    \/ /\ submitted < MaxMsgs
       /\ \E e \in Events(submitted + 1) : process(e)
    \/ start
    \/ stop
    \/ \E t \in TaskIds : run_start(t)
    \/ \E t \in TaskIds : run_message(t, FALSE)

SpecStop == Init /\ [][NextStop]_vars

\* reconcile_state with clients that may never answer: the event loop resumes
\* the coroutine after each sleep and the clock advances, but nothing makes a
\* state_report complete.
NextTimeout ==
    \/ reconcile_begin
    \/ reconcile_report
    \/ reconcile_pass
    \/ tick
    \/ tick_awaiting

SpecTimeout ==
    /\ InitReports
    /\ [][NextTimeout]_vars
    /\ WF_vars(reconcile_pass)
    /\ WF_vars(tick)
    /\ WF_vars(tick_awaiting)

\* A backtest data client from before its construction on (data_client is
\* NoDataClient in Init), with every operation of its interface called in any
\* order.
NextDataClient ==
    \/ \E instruments \in UNION {[1..n -> Instruments] : n \in 0..MaxInstruments},
          name \in {"SIM", "BINANCE"} :
          BacktestMarketDataClient(instruments, name)
    \/ connect
    \/ disconnect
    \/ reset
    \/ dispose
    \/ \E security \in Securities : subscribe_instrument(security)
    \/ \E security \in Securities : subscribe_order_book(security)
    \/ \E security \in Securities : subscribe_quote_ticks(security)
    \/ \E security \in Securities : subscribe_trade_ticks(security)
    \/ \E bar_type \in {"AUD/USD.SIM-1-MINUTE-BID"} : subscribe_bars(bar_type)
    \/ \E security \in Securities : unsubscribe_instrument(security)
    \/ \E security \in Securities : unsubscribe_order_book(security)
    \/ \E security \in Securities : unsubscribe_quote_ticks(security)
    \/ \E security \in Securities : unsubscribe_trade_ticks(security)
    \/ \E bar_type \in {"AUD/USD.SIM-1-MINUTE-BID"} : unsubscribe_bars(bar_type)
    \/ \E security \in Securities, correlation_id \in 1..2 :
          request_instrument(security, correlation_id)
    \/ \E correlation_id \in 1..2 : request_instruments(correlation_id)
    \/ \E security \in Securities, correlation_id \in 1..2 :
          request_quote_ticks(security, correlation_id)
    \/ \E security \in Securities, correlation_id \in 1..2 :
          request_trade_ticks(security, correlation_id)
    \/ \E bar_type \in {"AUD/USD.SIM-1-MINUTE-BID"}, correlation_id \in 1..2 :
          request_bars(bar_type, correlation_id)

SpecDataClient == Init /\ [][NextDataClient]_vars

\* Two ticks, of either class and of two securities, compared and hashed.
PairTicks ==
    {QuoteTick(s, p, p, z, z, ts) :
        s \in {"S1", "S2"}, p \in TickPrices, z \in TickSizes, ts \in Timestamps}
    \cup {TradeTick(s, [units |-> 5, precision |-> 0], [units |-> 1, precision |-> 0],
                    "BUY", <<"a">>, ts) :
        s \in {"S1", "S2"}, ts \in Timestamps}

InitPair ==
    /\ InitEngine
    /\ orders = [o \in OrderIds |-> NewOrder("V1", "SUBMITTED", 0)]
    /\ position = load_positions(orders)
    /\ codec = NoCodec
    /\ data_client = NoDataClient
    /\ tick_pair \in {[NoPair EXCEPT !.pc = "ticks", !.a = a, !.b = b] :
                        a \in PairTicks, b \in PairTicks}

SpecPair == InitPair /\ [][compare]_vars

\* ================================================================ claims
IdsOf(q) == {q[j].id : j \in 1..Len(q)}

Range(f) == {f[j] : j \in 1..Len(f)}

NoneCount(q) == Cardinality({j \in 1..Len(q) : q[j] = None})

\* C1: every non-null message passed to execute()/process() is put on the
\* queue, whatever the occupancy at the time of the call: at any moment each
\* submitted message is either still buffered or has been dispatched.
C1_EveryMessageEnqueued ==
    \A i \in 1..submitted : i \in IdsOf(queue) \/ i \in Range(handled)

\* C2: messages are dispatched in exactly the order of the calls that
\* submitted them: when a message is dispatched, every message submitted before
\* it has been dispatched before it.
C2_DispatchInSubmissionOrder ==
    \A j \in 1..Len(handled) : handled[j] = j

\* C3: at every moment at most one consumer task is draining the queue.
Draining == {t \in TaskIds : tasks[t] = "waiting" /\ t \notin cancel_req}

C3_SingleConsumer == Cardinality(Draining) <= 1

\* C4: execute(None) and process(None) fail with a validation error and leave
\* the queue as it was; a None is only ever added to the queue by the stop path
\* of a running engine.
C4_NoneOnlyFromStop ==
    [][/\ (raised' # raised /\ raised' = "ValueError") => queue' = queue
       /\ NoneCount(queue') > NoneCount(queue)
            => /\ is_running /\ ~is_running'
               /\ queue' = Append(queue, None)]_vars

C4_Witness ==
    /\ raised = "ValueError"
    /\ queue # <<>>
    /\ NoneCount(queue) = 0

\* C5: the consumer loop never terminates because a message handler failed.
C5_ConsumerSurvivesHandlerFailure ==
    \A t \in TaskIds : tasks[t] # "failed"

\* C6: stop() on a running engine posts the sentinel and does not fail, for
\* every queue occupancy at the time of the call: no stop() ends with the
\* QueueFull of put_nowait.
C6_StopPostsSentinel ==
    raised # "QueueFull"

\* C7: once kill() has cancelled the consumer task, the messages still on the
\* queue stay undispatched (stated for the time until the cancellation is
\* delivered to the task).
C7_NoDispatchAfterKill ==
    [][(~is_running /\ run_queue_task \in cancel_req) => handled' = handled]_vars

\* An order agrees with the report of its venue: same state and, for FILLED and
\* PARTIALLY_FILLED, same filled quantity.
Matches(r, os, o) ==
    /\ os[o].venue \in DOMAIN r.reports
    /\ LET rep == r.reports[os[o].venue] IN
         /\ o \in DOMAIN rep.order_states
         /\ rep.order_states[o] = os[o].state
         /\ rep.order_states[o] \in {"FILLED", "PARTIALLY_FILLED"}
              => rep.order_filled[o] = os[o].filled_qty

\* A step in which reconcile_state returns res.
Returns(res) == recon.pc # "idle" /\ recon'.pc = "idle" /\ recon_result' = res

\* C8: reconcile_state returns True only on a pass at which every order under
\* reconciliation has the state its venue reported and, for FILLED and
\* PARTIALLY_FILLED, the reported filled quantity.
C8_TrueOnlyIfAllMatch ==
    [][Returns("True") => \A o \in recon'.open_orders : Matches(recon', orders', o)]_vars

C8_Witness ==
    /\ recon.pc = "idle"
    /\ recon_result = "True"
    /\ handled # <<>>
    /\ \E o \in recon.open_orders : orders[o].state = "FILLED"
    /\ \E o \in recon.open_orders : orders[o].state = "WORKING"

\* C9: reconcile_state never returns False while every order is resolved.
C9_FalseOnlyIfUnresolved ==
    [][Returns("False") =>
         \E o \in recon'.open_orders : ~Matches(recon', orders', o)]_vars

\* C10: after reconcile_state has returned False, an execute(command) call
\* does not put the command on the way to a client.
C10_CommandsRejectedAfterFailure ==
    [][recon_result = "False"
         => ~(/\ Len(queue') = Len(queue) + 1
              /\ queue'[Len(queue')].type = "COMMAND")]_vars

\* The reports of the call are those the previous call received, for every
\* order the call asked about.
SameReports(r) ==
    \A v \in DOMAIN r.reports :
        /\ v \in DOMAIN r.last_reports
        /\ \A o \in DOMAIN r.reports[v].order_states :
              /\ o \in DOMAIN r.last_reports[v].order_states
              /\ r.reports[v].order_states[o] = r.last_reports[v].order_states[o]
              /\ r.reports[v].order_filled[o] = r.last_reports[v].order_filled[o]

\* C11: reconcile_state is idempotent: when the previous call returned True,
\* the venue reports are the same and no order has changed since that call
\* returned, the call returns True, and the step in which it returns changes no
\* order, no queue content and routes no command.
C11_Idempotent ==
    [][(/\ recon.pc # "idle" /\ recon'.pc = "idle"
        /\ recon'.last_result = "True"
        /\ SameReports(recon')
        /\ orders' = recon.seen)
         => /\ recon_result' = "True"
            /\ UNCHANGED <<orders, queue, routed, handled>>]_vars

C11_Witness ==
    /\ recon.pc = "idle"
    /\ recon.calls = 2
    /\ recon.last_result = "True"
    /\ recon_result = "True"
    /\ SameReports(recon)
    /\ orders = recon.seen
    /\ handled # <<>>
    /\ \E o \in recon.open_orders : orders[o].state = "PARTIALLY_FILLED"
    /\ now > 0

\* C12: reconciliation converges while events are applied concurrently: when
\* reconcile_state is polling with the consumer running, order 1 was reported
\* FILLED and every other order agrees with its report, and the client submits
\* the missing events through process(), the consumer applies them between
\* passes and the call returns True.
ConsumerRunning ==
    /\ is_running
    /\ run_queue_task # 0
    /\ tasks[run_queue_task] = "waiting"

C12_Start ==
    /\ recon.pc = "polling"
    /\ ConsumerRunning
    /\ ReportedFilled(recon)
    /\ submitted = 0
    /\ \A o \in recon.open_orders \ {1} : Matches(recon, orders, o)

C12_ConvergesWithConsumer ==
    C12_Start ~> (recon.pc = "idle" /\ recon_result = "True")

\* The venue's report has no entry for the order, which is SUBMITTED locally.
AbsentSubmitted(r, os, o) ==
    /\ os[o].venue \in DOMAIN r.reports
    /\ target_state(r.reports[os[o].venue], o) = "UNDEFINED"
    /\ os[o].state = "SUBMITTED"

\* C13: an open order that is absent from its venue's report and SUBMITTED
\* locally is treated as REJECTED and does not keep the call from resolving:
\* while the call polls, if every other open order agrees with its report,
\* the comparison of the pass finds the orders resolved.
C13_AbsentSubmittedResolves ==
    (/\ recon.pc = "polling"
     /\ \A o \in recon.open_orders :
           Matches(recon, orders, o) \/ AbsentSubmitted(recon, orders, o))
      => resolved(recon, orders)

\* C14: the state reports are requested in parallel: whenever the call is
\* waiting for a client's report, the request to every registered client has
\* been issued.
C14_ReportsRequestedInParallel ==
    recon.pc = "reports" => clients \subseteq requested(recon)

C16_UnknownVenueNotEnqueued ==
    [][~(/\ Len(queue') = Len(queue) + 1
         /\ queue'[Len(queue')].type = "COMMAND"
         /\ queue'[Len(queue')].venue \notin clients)]_vars

\* A step in which the consumer dispatches an event for order o.
Dispatches(o) ==
    /\ queue # <<>>
    /\ Head(queue).type = "EVENT"
    /\ Head(queue).oid = o
    /\ queue' = Tail(queue)
    /\ handled' = Append(handled, Head(queue).id)

\* The event at the head of the queue is a fill whose cumulative quantity
\* exceeds the quantity of order o, which is not in a terminal state.
OverFills(o) ==
    /\ Head(queue).kind \in FillKinds
    /\ Head(queue).cum_qty > orders[o].quantity
    /\ orders[o].state \notin TerminalStates

\* The dispatch changes the state of order o along the row of the table for
\* the event, and without a row it changes nothing of the order.
FollowsTable(o) ==
    /\ orders'[o].state # orders[o].state
         => /\ HasRow(orders[o].state, Head(queue).kind)
            /\ orders'[o].state = Transition(orders[o].state, Head(queue).kind)
    /\ ~HasRow(orders[o].state, Head(queue).kind) => orders'[o] = orders[o]

C18_FillQuantitiesConsistent ==
    \A o \in OrderIds :
        orders[o].state \in {"ACCEPTED", "WORKING", "TRIGGERED", "PARTIALLY_FILLED"}
          => /\ orders[o].filled_qty + orders[o].leaves_qty = orders[o].quantity
             /\ 0 <= orders[o].filled_qty
             /\ orders[o].filled_qty <= orders[o].quantity

C18_Witness ==
    /\ orders[1].state = "PARTIALLY_FILLED"
    /\ orders[1].quantity = Quantity
    /\ orders[1].filled_qty = Quantity
    /\ orders[1].leaves_qty = 0
    /\ Len(orders[1].fills) = 2

\* C19: a fill whose cumulative quantity exceeds the quantity of the order
\* moves the order to INVALID and changes nothing else of it, changes no
\* position, and leaves the engine running with its consumer waiting for the
\* next message.
C19_OverFillGuard ==
    [][\A o \in OrderIds : (Dispatches(o) /\ OverFills(o)) =>
          /\ orders'[o] = [orders[o] EXCEPT !.state = "INVALID"]
          /\ position' = position
          /\ is_running' /\ state' = "RUNNING"
          /\ tasks'[run_queue_task] = "waiting"]_vars

C19_Witness ==
    /\ orders[1].state = "INVALID"
    /\ orders[1].filled_qty = 2
    /\ position = 2 + orders[2].filled_qty
    /\ is_running
    /\ tasks[run_queue_task] = "waiting"

\* The sum of fill_px * fill_qty over the recorded fills.
RECURSIVE Notional(_)
Notional(fills) ==
    IF fills = <<>> THEN 0
    ELSE Head(fills)[1] * Head(fills)[2] + Notional(Tail(fills))

\* The cumulative quantity after the first k recorded fills.
RECURSIVE CumQty(_, _)
CumQty(fills, k) ==
    IF k = 0 THEN 0 ELSE fills[k][1] + CumQty(fills, k - 1)

\* The sum of the cumulative quantities after each recorded fill.
RECURSIVE SumCumQty(_, _)
SumCumQty(fills, k) ==
    IF k = 0 THEN 0 ELSE CumQty(fills, k) + SumCumQty(fills, k - 1)

Abs(x) == IF x < 0 THEN 0 - x ELSE x

MeansRepresentable(fills) ==
    \A k \in 1..Len(fills) :
        Notional(SubSeq(fills, 1, k)) % CumQty(fills, k) = 0

ComesBack(c) ==
    /\ c.result.class = c.tick.class
    /\ Tick_eq(c.result, c.tick)
    /\ c.result = c.tick

\* C21 as stated: for every QuoteTick and TradeTick, parsing the serialized
\* string with the same security yields a tick equal to the original, with the
\* same prices, sizes, side, match id and timestamp.
C21_RoundTrip ==
    (codec.pc = "parsed" /\ codec.tick # NoTick) => ComesBack(codec)

\* What the wire form can carry: a timestamp of whole milliseconds and, for a
\* trade tick, a match id without a comma.
FitsWireForm(t) ==
    /\ t.timestamp % 1000 = 0
    /\ t.class = "TradeTick" => Count(t.match_id, ",") = 0

\* C21, amended: the round trip holds for every QuoteTick and TradeTick whose
\* timestamp is a whole number of milliseconds and, for a TradeTick, whose
\* match id contains no comma.
C21_RoundTripOfWireTicks ==
    (codec.pc = "parsed" /\ codec.tick # NoTick /\ FitsWireForm(codec.tick))
      => ComesBack(codec)

C21_Witness ==
    /\ codec.pc = "parsed"
    /\ codec.class = "TradeTick"
    /\ codec.tick # NoTick
    /\ codec.tick.timestamp = 12000
    /\ codec.tick.price.precision = 2
    /\ codec.tick.side = "SELL"
    /\ ComesBack(codec)

NumFields(str) == Count(str, ",") + 1

\* C22: parsing is strict: a values string that does not consist of exactly
\* five comma-separated fields, fewer or more, makes QuoteTick and TradeTick
\* parsing raise an error, and no tick is produced.
C22_ParsingIsStrict ==
    (codec.pc = "parsed" /\ NumFields(codec.values) # 5)
      => codec.result.class \in Exceptions

C22_Witness ==
    /\ codec.pc = "parsed"
    /\ codec.class = "QuoteTick"
    /\ codec.values = Join([j \in 1..6 |-> <<"1">>])
    /\ codec.result = Raise("ValueError")

\* A step in which the consumer dispatches the event at the head of the queue.
DispatchesEvent ==
    /\ queue # <<>>
    /\ Head(queue).type = "EVENT"
    /\ queue' = Tail(queue)
    /\ handled' = Append(handled, Head(queue).id)

C24_QsizeWithinCapacity ==
    0 <= qsize /\ qsize <= maxsize

C24_Witness ==
    /\ qsize = maxsize
    /\ NoneCount(queue) = 1
    /\ raised = "warning"

\* A step in which the consumer takes the head of the queue.
Dequeues == queue # <<>> /\ queue' = Tail(queue)

\* C25: each dequeued message that is not the sentinel is handled once, by the
\* one handler its type selects: an EVENT is applied to its order and forwarded
\* to the portfolio and reaches no client; a COMMAND is passed to the client of
\* its venue and touches no order and no position; a message of another type
\* touches neither clients nor orders nor the portfolio.
C25_DispatchByType ==
    [][(Dequeues /\ Head(queue) # None) =>
         LET m == Head(queue) IN
           /\ m.id \notin Range(handled)
           /\ handled' = Append(handled, m.id)
           /\ m.id \notin IdsOf(queue')
           /\ m.type = "EVENT" =>
                 /\ orders' = handle_event(orders, m)
                 /\ m.eid \in processed_ids'
                 /\ routed' = routed
           /\ m.type = "COMMAND" =>
                 /\ m.venue \in clients => routed' = Append(routed, <<m.venue, m.id>>)
                 /\ UNCHANGED <<orders, position, processed_ids>>
           /\ m.type \notin {"EVENT", "COMMAND"} =>
                 UNCHANGED <<routed, clients, orders, position, processed_ids>>]_vars

C25_Witness ==
    /\ Len(handled) = 3
    /\ queue = <<>>
    /\ Len(routed) = 1
    /\ Cardinality(processed_ids) = 1
    /\ position = 1

\* C26: the sentinel has no semantic effect: the step that dequeues None calls
\* no handler and changes no order, position or client state, nor the engine's
\* flag and lifecycle state; the consumer that took it goes back to the loop
\* condition, so it keeps waiting when the engine is running (a sentinel left by
\* an earlier stop() does not stop a consumer started later) and ends otherwise.
C26_SentinelIgnored ==
    [][(Dequeues /\ Head(queue) = None) =>
         /\ UNCHANGED <<handled, routed, clients, orders, position, processed_ids,
                        is_running, state, run_queue_task>>
         /\ \A t \in TaskIds :
               tasks'[t] # tasks[t]
                 => tasks'[t] = IF is_running THEN "waiting" ELSE "done"
         /\ is_running => tasks' = tasks]_vars

\* A sentinel left by an earlier stop() is at the head of the queue, ahead of a
\* message, and the consumer of a later start() is waiting to take it.
C26_Witness ==
    /\ Len(queue) = 2
    /\ Head(queue) = None
    /\ queue[2] # None
    /\ is_running
    /\ run_queue_task = 2
    /\ tasks[1] = "done"
    /\ tasks[2] = "waiting"
    /\ cancel_req = {}

\* C27: graceful stop drains the queue: once the engine is stopped and its
\* consumer has exited, no message that was enqueued ahead of the sentinel is
\* left undispatched on the queue.
C27_StopDrainsQueue ==
    (/\ ~is_running
     /\ run_queue_task # 0
     /\ tasks[run_queue_task] = "done")
      => ~\E j, k \in 1..Len(queue) : j < k /\ queue[j] # None /\ queue[k] = None

\* C28: kill() on a running engine cancels the consumer task, leaves is_running
\* False and places no sentinel on the queue (the queue is as before); kill()
\* on an engine that is not running changes neither is_running nor the queue.
C28_KillFrame ==
    [][kill =>
         /\ queue' = queue
         /\ is_running =>
               /\ ~is_running'
               /\ Cancellable(run_queue_task) => run_queue_task \in cancel_req'
         /\ ~is_running => is_running' = is_running]_vars

C28_Witness ==
    /\ ~is_running
    /\ state = "STOPPED"
    /\ run_queue_task \in cancel_req
    /\ tasks[run_queue_task] = "waiting"
    /\ Len(queue) = 1
    /\ NoneCount(queue) = 0

\* The state_report calls the current reconcile_state call has made to client v.
RequestsTo(v) == {j \in 1..Len(recon.requests) : recon.requests[j][1] = v}

\* C29: reconcile_state partitions by venue: once the reports are in, each
\* registered client's state_report has been called exactly once by the call,
\* with exactly the cached orders that are not completed and whose venue is the
\* client's (none of them for a client without open orders); no completed
\* order is sent to any client and nothing is requested from anyone else.
C29_PartitionByVenue ==
    /\ \A j \in 1..Len(recon.requests) :
          /\ recon.requests[j][1] \in clients
          /\ recon.requests[j][2] =
                {o \in DOMAIN orders : /\ orders[o].state \notin TerminalStates
                                       /\ orders[o].venue = recon.requests[j][1]}
    /\ \A v \in clients :
          /\ Cardinality(RequestsTo(v)) <= 1
          /\ (recon.calls > 0 /\ recon.pc # "reports")
                => Cardinality(RequestsTo(v)) = 1

C29_Witness ==
    /\ recon.pc = "idle"
    /\ recon.calls = 2
    /\ orders[1].state = "PARTIALLY_FILLED"
    /\ orders[2].state = "FILLED"
    /\ recon.requests = << <<"V1", {1}>>, <<"V2", {}>> >>

\* C30: reconcile_state always yields a boolean and never fails with an error,
\* for every cache content and every report: what a call leaves behind is True
\* or False.
C30_AlwaysBoolean ==
    recon_result \in {"none", "True", "False"}

\* C31: the timeout bounds the whole call: a reconcile_state call that awaits
\* a client's report eventually returns, even if that report never completes.
C31_TimeoutBoundsCall ==
    (recon.pc = "reports") ~> (recon.pc = "idle")

GatedOps ==
    {"subscribe_instrument", "subscribe_order_book", "subscribe_quote_ticks",
     "subscribe_trade_ticks", "subscribe_bars", "unsubscribe_instrument",
     "unsubscribe_order_book", "unsubscribe_quote_ticks",
     "unsubscribe_trade_ticks", "unsubscribe_bars", "request_instrument",
     "request_instruments", "request_quote_ticks", "request_trade_ticks",
     "request_bars"}

\* C33: the backtest data client is gated by its connection: a subscribe_*,
\* unsubscribe_* or request_* call on a client that is not connected logs one
\* error and changes nothing else; no response reaches the data engine.
C33_GatedByConnection ==
    [][(~data_client.is_connected /\ data_client'.call.op \in GatedOps)
         => data_client' = [data_client EXCEPT !.log = <<"ERROR">>,
                                               !.call = data_client'.call]]_vars

\* The instruments the client holds for a security.
Registered(security) ==
    {j \in 1..Len(data_client.instruments) :
        data_client.instruments[j].security = security}

\* C34: request_instrument(security, correlation_id) on a connected client
\* delivers exactly one response, holding exactly the instrument registered for
\* the security, with the correlation id of the request; with no instrument
\* registered for the security it logs a warning and delivers nothing.
C34_RequestInstrument ==
    [][(data_client.is_connected /\ data_client'.call.op = "request_instrument")
         => LET security == data_client'.call.security
                correlation_id == data_client'.call.correlation_id
            IN IF Registered(security) # {}
                 THEN /\ Cardinality(Registered(security)) = 1
                      /\ data_client'.responses =
                           Append(data_client.responses,
                                  [instruments |->
                                      <<data_client.instruments[
                                          CHOOSE j \in Registered(security) : TRUE]>>,
                                   correlation_id |-> correlation_id])
                 ELSE /\ data_client'.responses = data_client.responses
                      /\ data_client'.log = <<"WARNING">>]_vars

\* The constructor was given two instruments of one security, the client is
\* connected, and the latest call, request_instrument for that security with
\* correlation id 2, was answered with the one that is registered.
C34_Witness ==
    /\ data_client.pc = "constructed"
    /\ data_client.is_connected
    /\ data_client.instruments = <<[security |-> [symbol |-> "AUD/USD", venue |-> "SIM"], price_precision |-> 3]>>
    /\ data_client.call.op = "request_instrument"
    /\ data_client.call.security = [symbol |-> "AUD/USD", venue |-> "SIM"]
    /\ data_client.call.correlation_id = 2
    /\ data_client.responses =
         <<[instruments |-> <<[security |-> [symbol |-> "AUD/USD", venue |-> "SIM"], price_precision |-> 3]>>,
            correlation_id |-> 2]>>

\* C35: after reset() every stateful field of the data client is at its
\* initial value: is_connected is False and the instrument map is the one the
\* constructor built, whatever calls came before.
C35_ResetRestoresInitialState ==
    [][data_client'.call.op = "reset"
         => /\ ~data_client'.is_connected
            /\ data_client'.instruments = data_client.instruments]_vars

\* C36: every instrument a backtest data client holds has a security whose
\* venue value is the client's name, in every reachable state; a constructor
\* given an instrument of another venue fails and leaves no client.
C36_InstrumentsOfOwnVenue ==
    /\ data_client.pc = "constructed"
         => \A j \in 1..Len(data_client.instruments) :
               data_client.instruments[j].security.venue = data_client.name
    /\ data_client.call.op = "__init__"
         => /\ data_client.pc \in {"constructed", "failed"}
            /\ data_client.pc = "failed"
                 <=> \E j \in 1..Len(data_client.call.instruments) :
                        data_client.call.instruments[j].security.venue
                           # data_client.call.name
    /\ data_client.pc = "failed" => data_client.instruments = <<>>

\* A client that holds two instruments has answered two requests.
C36_Witness ==
    /\ data_client.pc = "constructed"
    /\ Len(data_client.instruments) = 2
    /\ data_client.name = "SIM"
    /\ Len(data_client.responses) = 2
    /\ data_client.is_connected

C38_EqualTicksHashEqual ==
    tick_pair.pc = "compared"
      => /\ tick_pair.eq => tick_pair.hash_a = tick_pair.hash_b
         /\ tick_pair.ne = ~tick_pair.eq

====
